---- MODULE Spec2Model ----
(***************************************************************************)
(* Model of lib/index.js of serverless-step-functions: the plugin class    *)
(* ServerlessStepFunctions, its lifecycle hooks (promise chains of compile  *)
(* phases), the invoke workflow and the post-deploy display.                *)
(*                                                                          *)
(* A call of a hook builds a promise chain: a phase is started only when    *)
(* the promise of the phase before it has resolved; a phase that throws or  *)
(* rejects rejects the whole chain.  Nothing in the class keeps a hook from *)
(* being called while the chain of an earlier call is pending: the chains   *)
(* of several calls are then in flight together, one callback at a time.    *)
(* The model follows up to MaxCalls chains in flight; a chain that has      *)
(* settled takes no further step and is followed until the next call of a   *)
(* hook.                                                                    *)
(* The phases themselves live in other modules of the plugin (mixed into    *)
(* the class at lines 52-78); here each one is a call that is started and   *)
(* later resolves or fails.  httpValidate and display are synchronous: they *)
(* start and return inside one callback.  When the callback that calls     *)
(* httpValidate throws, the promise the hook returned is rejected by a      *)
(* later item of the promise queue: callbacks of other chains run between.  *)
(*                                                                          *)
(* JavaScript strings are sequences of one-character strings.               *)
(***************************************************************************)
EXTENDS Integers, Sequences, FiniteSets, Bags, TLC

VARIABLES
    service,        \* this.service
    region,         \* this.region
    stage,          \* this.stage
    options,        \* this.options
    v3Api,          \* this.v3Api
    stateMachines,  \* serverless.service.stepFunctions.stateMachines
    endpointInfo,   \* this.endpointInfo
    validated,      \* this.pluginhttpValidated.events.length (-1: not set)
    exitCode,       \* process.exitCode
    calls           \* the bag of the chains that are followed; of each one:
                    \*   hook       the lifecycle hook called
                    \*   pc         index in the hook's chain of the next phase
                    \*   running    the phases started and not yet settled
                    \*   started    the phases started, in order
                    \*   completed  the phases that returned/resolved, in order
                    \*   result     the promise returned by the hook
                    \*   error      the error that the promise carries
                    \*   thrown     the error a callback of the chain threw
                    \*              that has not yet reached that promise
                    \*   events     how many events httpValidate returned
                    \*   execution  the value describeExecution resolved with
                    \*   history    the events getExecutionHistory resolved with
                    \*   displayRet what display returned
                    \*   effects    what the call passed to logger.log and
                    \*              assigned to process.exitCode, in order

vars == <<service, region, stage, options, v3Api, stateMachines, endpointInfo,
          validated, exitCode, calls>>

naming == <<service, region, stage>>

\* what no hook writes: the naming context, the options and the configuration
config == <<naming, options, v3Api, stateMachines>>

-----------------------------------------------------------------------------
(* Bounds of the model *)

\* getExecutionHistory returns between 0 and MaxHistory events
MaxHistory == 2
\* paths of Http bindings have at most MaxPathLen characters
MaxPathLen == 1
\* at most MaxMachines state machines are declared
MaxMachines == 2
\* the declared state machines hold at most MaxEvents events together
MaxEvents == 2
\* at most MaxCalls calls of hooks are pending at once
MaxCalls == 2

-----------------------------------------------------------------------------
(* Generic helpers *)

Undefined == "undefined"

RECURSIVE SeqsOfLen(_, _)
SeqsOfLen(S, n) ==
    IF n = 0 THEN {<<>>}
    ELSE {Append(s, x) : s \in SeqsOfLen(S, n - 1), x \in S}

SeqsUpTo(S, n) == UNION {SeqsOfLen(S, k) : k \in 0..n}

Range(s) == {s[i] : i \in 1..Len(s)}

\* the first index of x in s
IndexOf(s, x) ==
    CHOOSE i \in 1..Len(s) : s[i] = x /\ \A j \in 1..(i - 1) : s[j] # x

Pos(s, x) == IF x \in Range(s) THEN IndexOf(s, x) ELSE 0


-----------------------------------------------------------------------------
(* The constructor *)

\* this.stage = this.serverless.service.provider.stage || 'ap-southeast-2'
ConstructorStage(providerStage) ==
    IF providerStage = Undefined \/ providerStage = ""
    THEN "ap-southeast-2" ELSE providerStage

\* this.options = options || {}
ConstructorOptions(opts) ==
    IF ~opts.given THEN [stage |-> Undefined, region |-> Undefined]
    ELSE [stage |-> opts.stage, region |-> opts.region]

-----------------------------------------------------------------------------
(* The hooks' promise chains *)

\* variant: the role is compiled after the state machines that use it
CompileFunctionsChainSwapped ==
    <<"compileStateMachines", "compileIamRole", "compileActivities",
      "compileAlarms", "compileNotifications">>

\* package:compileFunctions
CompileFunctionsChain ==
    <<"compileIamRole", "compileStateMachines", "compileActivities",
      "compileAlarms", "compileNotifications">>

\* variant: the deployment is compiled before the methods
HttpChainDeploymentFirst ==
    <<"compileRestApi", "compileResources", "compileDeployment", "compileMethods",
      "compileRequestValidators", "compileAuthorizers",
      "compileHttpLambdaPermissions", "compileCors", "compileHttpIamRole",
      "compileApiKeys", "compileUsagePlan", "compileUsagePlanKeys">>

\* the HTTP compiler chain of package:compileEvents
HttpChain ==
    <<"compileRestApi", "compileResources", "compileMethods",
      "compileRequestValidators", "compileAuthorizers",
      "compileHttpLambdaPermissions", "compileCors", "compileHttpIamRole",
      "compileDeployment", "compileApiKeys", "compileUsagePlan",
      "compileUsagePlanKeys">>

\* variant: the schedule compiler runs after the HTTP chain
CompileEventsChainScheduleLast ==
    <<"httpValidate">> \o HttpChain
        \o <<"compileScheduledEvents", "compileCloudWatchEventEvents">>

\* package:compileEvents
CompileEventsChain ==
    <<"compileScheduledEvents", "httpValidate">> \o HttpChain
        \o <<"compileCloudWatchEventEvents">>

InitializeChain == <<"yamlParse">>

InvokeChain ==
    <<"yamlParse", "getStateMachineArn", "startExecution", "describeExecution">>

\* variant: display is not chained behind getEndpointInfo
AfterDeployChainDisplayFirst == <<"display", "getEndpointInfo">>

AfterDeployChain == <<"getEndpointInfo", "display">>

Chain(h) ==
    CASE h = "invoke:stepf:invoke" -> InvokeChain
      [] h = "package:initialize" -> InitializeChain
      [] h = "package:compileFunctions" -> CompileFunctionsChain
      [] h = "package:compileEvents" -> CompileEventsChain
      [] h = "after:deploy:deploy" -> AfterDeployChain
      [] OTHER -> <<>>

\* the phases whose return value the chain does not look at
PlainPhases ==
    (Range(CompileFunctionsChain) \cup Range(CompileEventsChain)
        \cup Range(InvokeChain))
    \ {"httpValidate", "describeExecution"}

\* the phases that are called and return inside one callback
SyncPhases == {"httpValidate", "display"}

NoExecution == [status |-> Undefined, error |-> Undefined, cause |-> Undefined]

NotReturned == [kind |-> "none", value |-> <<>>]

\* BbPromise.bind(this): the chain of a call, with nothing run yet
NewCall(h) ==
    [hook |-> h, pc |-> 1, running |-> {}, started |-> <<>>,
     completed |-> <<>>, result |-> "pending", error |-> "none",
     thrown |-> "none",
     events |-> -1, execution |-> NoExecution, history |-> <<>>,
     displayRet |-> NotReturned, effects |-> <<>>]

\* the chains that are followed
Chains == BagToSet(calls)

\* the chains in flight
PendingCalls ==
    [r \in {q \in Chains : q.result = "pending"} |-> calls[r]]

\* chain r goes on as r2
Becomes(r, r2) == calls' = (calls (-) SetToBag({r})) (+) SetToBag({r2})

\* a call that starts as r: the call is made beside the chains in flight;
\* the chains that have settled are followed no longer
Called(r) ==
    /\ BagCardinality(PendingCalls) < MaxCalls
    /\ calls' = PendingCalls (+) SetToBag({r})

\* a hook is a function of no argument and no guard: it may be called in
\* every state, also while the chain of an earlier call is pending
EnterHook(h) == Called(NewCall(h))

\* variant: invoke takes the --stage option for the stage of the service
InvokeStepfInvokeSetsStage ==
    /\ EnterHook("invoke:stepf:invoke")
    /\ stage' = IF options.stage # Undefined THEN options.stage ELSE stage
    /\ UNCHANGED <<service, region, options, v3Api, stateMachines, endpointInfo,
                   validated, exitCode>>

InvokeStepfInvoke ==
    /\ EnterHook("invoke:stepf:invoke")
    /\ UNCHANGED <<config, endpointInfo, validated, exitCode>>

PackageInitialize ==
    /\ EnterHook("package:initialize")
    /\ UNCHANGED <<config, endpointInfo, validated, exitCode>>

PackageCompileFunctions ==
    /\ EnterHook("package:compileFunctions")
    /\ UNCHANGED <<config, endpointInfo, validated, exitCode>>

\* () => this.compileScheduledEvents().then(...): the first phase of the
\* chain is called by the hook itself, before any promise exists
PackageCompileEvents ==
    /\ Called([NewCall("package:compileEvents") EXCEPT
                   !.running = {CompileEventsChain[1]},
                   !.started = <<CompileEventsChain[1]>>])
    /\ UNCHANGED <<config, endpointInfo, validated, exitCode>>

AfterDeployDeploy ==
    /\ EnterHook("after:deploy:deploy")
    /\ UNCHANGED <<config, endpointInfo, validated, exitCode>>

\* variant: f is called without waiting for the promise before it
ThenReadyEager(r) == r.result = "pending"

\* .then(f): f is called once the promise before it has resolved
ThenReady(r) == r.running = {} /\ r.result = "pending" /\ r.thrown = "none"

\* the phase that the chain r calls next
NextPhase(r) ==
    IF r.pc <= Len(Chain(r.hook)) THEN Chain(r.hook)[r.pc] ELSE "none"

PhaseStart ==
    \E r \in Chains :
        /\ ThenReady(r)
        /\ NextPhase(r) \notin SyncPhases \cup {"none"}
        /\ Becomes(r, [r EXCEPT !.running = @ \cup {NextPhase(r)},
                                !.started = Append(@, NextPhase(r))])
        /\ UNCHANGED <<config, endpointInfo, validated, exitCode>>

\* the chain's promise once the phase at index i has resolved
AfterPhase(h, i) == IF i >= Len(Chain(h)) THEN "resolved" ELSE "pending"

PhaseResolves ==
    \E r \in Chains :
        \E p \in r.running :
            /\ p \in PlainPhases
            /\ r.result = "pending"
            /\ Becomes(r, [r EXCEPT !.running = @ \ {p},
                                    !.completed = Append(@, p),
                                    !.pc = @ + 1,
                                    !.result = AfterPhase(r.hook, r.pc)])
            /\ UNCHANGED <<config, endpointInfo, validated, exitCode>>

\* variant: the error is swallowed and the chain goes on
RejectedKeepsGoing(p, mode) == "pending"

\* a phase throws (mode "throw") or returns a promise that rejects (mode
\* "reject"): inside .then both reject the chain; compileScheduledEvents is
\* called outside any .then, so its throw leaves the hook itself
Rejected(p, mode) ==
    IF p = "compileScheduledEvents" /\ mode = "throw" THEN "threw" ELSE "rejected"

\* chain r after phase p has failed in the given mode
AfterFailure(r, p, mode) ==
    LET res == Rejected(p, mode)
    IN  [r EXCEPT !.running = @ \ {p},
                  !.result = res,
                  !.error = IF res = "pending" THEN @ ELSE p,
                  !.pc = IF res = "pending" THEN @ + 1 ELSE @]

PhaseFails ==
    \E r \in Chains :
        \E p \in r.running, mode \in {"throw", "reject"} :
            /\ r.result = "pending"
            /\ Becomes(r, AfterFailure(r, p, mode))
            /\ UNCHANGED <<config, endpointInfo, validated, exitCode>>

-----------------------------------------------------------------------------
(* package:compileEvents: httpValidate and the decision to skip the chain *)

\* variant: the HTTP chain is entered whatever httpValidate returned
SkipHttpNever(n) == FALSE

\* if (this.pluginhttpValidated.events.length === 0) return BbPromise.resolve()
SkipHttp(n) == n = 0

\* how many events httpValidate returns: none, one, or several (three: one
\* Http binding beside two others); the hook reads only whether there is
\* none (line 140)
HttpEventCounts == {0, 1, 3}

\* the callback behind compileScheduledEvents: httpValidate returns an
\* object with n events, which is stored, and the HTTP chain is entered or
\* skipped
HttpValidateReturns ==
    \E r \in Chains, n \in HttpEventCounts :
        /\ ThenReady(r)
        /\ NextPhase(r) = "httpValidate"
        /\ validated' = n
        /\ Becomes(r, [r EXCEPT
                !.started = Append(@, "httpValidate"),
                !.completed = Append(@, "httpValidate"),
                !.events = n,
                !.pc = IF SkipHttp(n) THEN @ + Len(HttpChain) + 1 ELSE @ + 1])
        /\ UNCHANGED <<config, endpointInfo, exitCode>>

\* httpValidate throws: nothing is stored and the error leaves the callback
HttpValidateThrows ==
    \E r \in Chains :
        /\ ThenReady(r)
        /\ NextPhase(r) = "httpValidate"
        /\ Becomes(r, [r EXCEPT
                !.started = Append(@, "httpValidate"),
                !.thrown = "httpValidate"])
        /\ UNCHANGED <<config, endpointInfo, validated, exitCode>>

\* the error thrown out of the callback of line 134 rejected the promise of
\* the first .then only; the promise the hook returned (the .then of line
\* 157) is rejected with it by a later item of the promise queue
HttpCallbackErrorRejectsHook ==
    \E r \in Chains :
        /\ r.result = "pending"
        /\ r.thrown # "none"
        /\ Becomes(r, [AfterFailure(r, r.thrown, "throw") EXCEPT
                !.thrown = "none"])
        /\ UNCHANGED <<config, endpointInfo, validated, exitCode>>

-----------------------------------------------------------------------------
(* invoke *)

Statuses == {"SUCCEEDED", "FAILED", "TIMED_OUT", "ABORTED"}

\* what describeExecution may resolve with
DescribeResults ==
    [status : Statuses, error : {Undefined, "E0"}, cause : {Undefined}]

\* executionFailedEventDetails of a history event; events of other types
\* have none
NoDetails == [error |-> Undefined, cause |-> Undefined]

HistoryEvents ==
    {[executionFailedEventDetails |-> Undefined, details |-> NoDetails]}
    \cup {[executionFailedEventDetails |-> "object", details |-> d] :
             d \in {[error |-> "E1", cause |-> "C1"],
                    [error |-> "E2", cause |-> Undefined]}}

Histories == SeqsUpTo(HistoryEvents, MaxHistory)

\* _.merge(object, source): source's defined properties are assigned to
\* object; an undefined source changes nothing
Merge(object, ev) ==
    IF ev.executionFailedEventDetails = Undefined THEN object
    ELSE [k \in DOMAIN object |->
            IF k \in DOMAIN ev.details /\ ev.details[k] # Undefined
            THEN ev.details[k] ELSE object[k]]

LogString(s) == <<"string", s>>
LogObject(o) == <<"object", o>>

\* variant: the history is fetched for every status
IsFailedAlways(r) == TRUE

\* result.status === 'FAILED'
IsFailed(r) == r.status = "FAILED"

\* process.exitCode = v, as an effect of a call
ExitCodeSet(v) == <<"exitCode", v>>

\* .then((result) => { logger.log(''); if (FAILED) return
\*   this.getExecutionHistory().then(...); logger.log(result); ... })
DescribeExecutionResolves ==
    \E r \in Chains, res \in DescribeResults :
        /\ r.hook = "invoke:stepf:invoke"
        /\ "describeExecution" \in r.running
        /\ r.result = "pending"
        /\ Becomes(r,
             IF IsFailed(res)
             THEN [r EXCEPT
                     !.completed = Append(@, "describeExecution"),
                     !.execution = res,
                     !.pc = @ + 1,
                     !.effects = Append(@, LogString(<<>>)),
                     !.running = (@ \ {"describeExecution"})
                                     \cup {"getExecutionHistory"},
                     !.started = Append(@, "getExecutionHistory")]
             ELSE [r EXCEPT
                     !.completed = Append(@, "describeExecution"),
                     !.execution = res,
                     !.pc = @ + 1,
                     !.effects = @ \o <<LogString(<<>>), LogObject(res)>>,
                     !.running = @ \ {"describeExecution"},
                     !.result = "resolved"])
        /\ UNCHANGED <<config, endpointInfo, validated, exitCode>>

\* variant: the details are taken from the first event of the history
FirstEvent(h) == h[1]

\* error.events[error.events.length - 1]
LastEvent(h) == h[Len(h)]

\* .then((error) => { logger.log(_.merge(result,
\*   error.events[error.events.length - 1].executionFailedEventDetails));
\*   process.exitCode = 1; })
\* One callback: it logs, sets the exit code and resolves the workflow.  With
\* no event, events[-1] is undefined and reading its property throws before
\* anything is logged or set.
GetExecutionHistoryResolves ==
    \E r \in Chains, h \in Histories :
        LET returned == [r EXCEPT
                            !.running = @ \ {"getExecutionHistory"},
                            !.completed = Append(@, "getExecutionHistory"),
                            !.history = h]
        IN  /\ r.hook = "invoke:stepf:invoke"
            /\ "getExecutionHistory" \in r.running
            /\ r.result = "pending"
            /\ IF Len(h) = 0
               THEN /\ Becomes(r, [returned EXCEPT !.result = "rejected",
                                                   !.error = "TypeError"])
                    /\ exitCode' = exitCode
               ELSE LET merged == Merge(r.execution, LastEvent(h))
                    IN  /\ Becomes(r, [returned EXCEPT
                                !.execution = merged,
                                !.effects = @ \o <<LogObject(merged),
                                                   ExitCodeSet(1)>>,
                                !.result = "resolved"])
                        /\ exitCode' = 1
            /\ UNCHANGED <<config, endpointInfo, validated>>

-----------------------------------------------------------------------------
(* Strings *)

\* String.prototype.toUpperCase on one character
UpperChar(c) ==
    CASE c = "a" -> "A" [] c = "b" -> "B" [] c = "c" -> "C" [] c = "d" -> "D"
      [] c = "e" -> "E" [] c = "f" -> "F" [] c = "g" -> "G" [] c = "h" -> "H"
      [] c = "i" -> "I" [] c = "j" -> "J" [] c = "k" -> "K" [] c = "l" -> "L"
      [] c = "m" -> "M" [] c = "n" -> "N" [] c = "o" -> "O" [] c = "p" -> "P"
      [] c = "q" -> "Q" [] c = "r" -> "R" [] c = "s" -> "S" [] c = "t" -> "T"
      [] c = "u" -> "U" [] c = "v" -> "V" [] c = "w" -> "W" [] c = "x" -> "X"
      [] c = "y" -> "Y" [] c = "z" -> "Z" [] OTHER -> c

\* variant: the method is printed as configured
MethodAsWritten(s) == s

\* method.toUpperCase()
ToUpperCase(s) == [i \in 1..Len(s) |-> UpperChar(s[i])]

RECURSIVE SplitAcc(_, _, _, _)
SplitAcc(s, sep, cur, acc) ==
    IF s = <<>> THEN Append(acc, cur)
    ELSE IF Head(s) = sep
         THEN SplitAcc(Tail(s), sep, <<>>, Append(acc, cur))
         ELSE SplitAcc(Tail(s), sep, Append(cur, Head(s)), acc)

\* String.prototype.split with a one-character separator
Split(s, sep) == SplitAcc(s, sep, <<>>, <<>>)

\* Array.prototype.filter(p => p !== '')
RECURSIVE NonEmpty(_)
NonEmpty(parts) ==
    IF parts = <<>> THEN <<>>
    ELSE IF Head(parts) = <<>> THEN NonEmpty(Tail(parts))
         ELSE <<Head(parts)>> \o NonEmpty(Tail(parts))

\* Array.prototype.join
RECURSIVE Join(_, _)
Join(parts, sep) ==
    IF parts = <<>> THEN <<>>
    ELSE IF Len(parts) = 1 THEN Head(parts)
         ELSE Head(parts) \o <<sep>> \o Join(Tail(parts), sep)

-----------------------------------------------------------------------------
(* display *)

\* a chalk style applied to a text
Chalk(style, text) == <<style>> \o text \o <<"chalk.reset">>

Title == "Serverless StepFunctions Outputs"

\* the head of the message, in the v3 or the legacy style
Header(v3) ==
    IF v3
    THEN <<"\n">> \o Chalk("chalk.hex(#fd5750)", <<"checkmark">>) \o <<" ", Title, "\n">>
            \o Chalk("chalk.grey", <<"endpoints:">>)
    ELSE Chalk("chalk.yellow.underline", <<Title>>) \o <<"\n">>
            \o Chalk("chalk.yellow", <<"endpoints:">>)

\* path = path !== '/' ? `/${path.split('/').filter(p => p !== '').join('/')}` : ''
NormalizePath(path) ==
    IF path # <<"/">> THEN <<"/">> \o Join(NonEmpty(Split(path, "/")), "/")
    ELSE <<>>

\* variant: every event is taken for an Http binding
IsHttpAnyEvent(event) == TRUE

\* if (event.http): undefined and the empty string are falsy
IsHttp(event) ==
    /\ event.http.t # Undefined
    /\ ~(event.http.t = "string" /\ event.http.str = <<>>)

\* the method and path of a binding, object or 'method path' string; a
\* string without a space has no second part
HttpParts(http) ==
    IF http.t = "object"
    THEN [method |-> http.method, hasPath |-> TRUE, path |-> http.path]
    ELSE LET parts == Split(http.str, " ")
         IN  [method |-> parts[1],
              hasPath |-> Len(parts) >= 2,
              path |-> IF Len(parts) >= 2 THEN parts[2] ELSE <<>>]

\* the line of one Http event; path.split throws when path is undefined
EventLine(event, info) ==
    LET parts == HttpParts(event.http)
    IN  IF ~parts.hasPath THEN [threw |-> TRUE, text |-> <<>>]
        ELSE [threw |-> FALSE,
              text |-> <<"\n", " ", " ">> \o ToUpperCase(parts.method)
                          \o <<" ", "-", " ">> \o info
                          \o NormalizePath(parts.path)]

\* stateMachineObj.events.forEach(...)
RECURSIVE EventsMessages(_, _, _)
EventsMessages(events, info, acc) ==
    IF events = <<>> THEN [threw |-> FALSE, text |-> acc]
    ELSE IF ~IsHttp(Head(events)) THEN EventsMessages(Tail(events), info, acc)
    ELSE LET line == EventLine(Head(events), info)
         IN  IF line.threw THEN [threw |-> TRUE, text |-> acc]
             ELSE EventsMessages(Tail(events), info, acc \o line.text)

\* stateMachineObj.events != null && _.isArray(stateMachineObj.events)
HasEventList(machine) == machine.events.kind = "array"

\* this.isStateMachines()
IsStateMachines(machines) == Len(machines) > 0

\* this.getAllStateMachines(): the names, in declaration order
GetAllStateMachines(machines) == [i \in 1..Len(machines) |-> i]

\* this.getStateMachine(name)
GetStateMachine(machines, name) == machines[name]

\* _.forEach(this.getAllStateMachines(), ...)
RECURSIVE MachinesMessages(_, _, _, _)
MachinesMessages(machines, names, info, acc) ==
    IF names = <<>> THEN [threw |-> FALSE, text |-> acc]
    ELSE LET obj == GetStateMachine(machines, Head(names))
         IN  IF ~HasEventList(obj)
             THEN MachinesMessages(machines, Tail(names), info, acc)
             ELSE LET r == EventsMessages(obj.events.list, info, acc)
                  IN  IF r.threw THEN r
                      ELSE MachinesMessages(machines, Tail(names), info, r.text)

StateMachineMessages(machines, info) ==
    IF IsStateMachines(machines)
    THEN MachinesMessages(machines, GetAllStateMachines(machines), info, <<>>)
    ELSE [threw |-> FALSE, text |-> <<>>]


\* .then(this.display): display() runs inside one callback of the
\* after:deploy:deploy chain; it throws when a binding has no path
Display ==
    \E r \in Chains :
        LET msgs == StateMachineMessages(stateMachines, endpointInfo)
            message == Header(v3Api) \o msgs.text \o <<"\n">>
            began == [r EXCEPT !.started = Append(@, "display")]
            returned == [began EXCEPT !.completed = Append(@, "display"),
                                      !.pc = @ + 1,
                                      !.result = AfterPhase(r.hook, r.pc)]
        IN  /\ r.hook = "after:deploy:deploy"
            /\ ThenReady(r)
            /\ NextPhase(r) = "display"
            /\ Becomes(r,
                 IF msgs.threw
                 THEN [began EXCEPT
                         !.displayRet = [kind |-> "threw", value |-> <<>>],
                         !.result = "rejected",
                         !.error = "TypeError"]
                 ELSE IF msgs.text = <<>>
                 THEN [returned EXCEPT
                         !.displayRet = [kind |-> "returned", value |-> <<>>]]
                 ELSE [returned EXCEPT
                         !.displayRet = [kind |-> "returned", value |-> message],
                         !.effects = Append(@, LogString(message))])
            /\ UNCHANGED <<config, endpointInfo, validated, exitCode>>

\* what getEndpointInfo may leave in this.endpointInfo: the ServiceEndpoint
\* output of the stack, or nothing when the stack has no such output
EndpointInfos == {<<"h">>, <<"undefined">>}

GetEndpointInfoResolves ==
    \E r \in Chains, info \in EndpointInfos :
        /\ r.hook = "after:deploy:deploy"
        /\ "getEndpointInfo" \in r.running
        /\ r.result = "pending"
        /\ endpointInfo' = info
        /\ Becomes(r, [r EXCEPT !.running = @ \ {"getEndpointInfo"},
                                !.completed = Append(@, "getEndpointInfo"),
                                !.pc = @ + 1])
        /\ UNCHANGED <<config, validated, exitCode>>

-----------------------------------------------------------------------------
(* Inputs *)

ProviderStages == {Undefined, "dev"}

NoOptions == [given |-> FALSE, stage |-> Undefined, region |-> Undefined]

OptionsGiven ==
    {NoOptions}
    \cup [given : {TRUE}, stage : {Undefined, "prod"},
          region : {Undefined, "eu-west-1"}]

Post == <<"p", "o", "s", "t">>
Get == <<"G", "e", "t">>
Methods == {Post, Get}

Orders == <<"o", "r", "d", "e", "r", "s">>
PathChars == {"/", "a"}
\* spellings of the API root and of the path orders
SpelledPaths ==
    {<<"/", "/">>, <<"/">> \o Orders, Orders \o <<"/">>,
     <<"/", "/">> \o Orders \o <<"/", "/">>}
Paths == SeqsUpTo(PathChars, MaxPathLen) \cup {Orders} \cup SpelledPaths

NoHttp == [t |-> Undefined, method |-> <<>>, path |-> <<>>, str |-> <<>>]

\* {http: {method, path}}
HttpObject(m, p) ==
    [type |-> "http",
     http |-> [t |-> "object", method |-> m, path |-> p, str |-> <<>>]]

\* {http: 'method path'}
HttpString(str) ==
    [type |-> "http",
     http |-> [t |-> "string", method |-> <<>>, path |-> <<>>, str |-> str]]

\* {schedule: ...}, {cloudwatchEvent: ...}
OtherEvent(type) == [type |-> type, http |-> NoHttp]

\* events of every kind, for configurations of several events
SomeEvents ==
    {OtherEvent("schedule"), OtherEvent("cloudwatchEvent"),
     HttpString(<<>>), HttpObject(Post, Orders),
     HttpString(Get \o <<" ", "/", "a">>), HttpString(<<"g", "e", "t">>)}

\* Http bindings of every method and path, in both forms
Bindings ==
    {HttpObject(m, p) : m \in Methods, p \in Paths}
    \cup {HttpString(m \o <<" ">> \o p) : m \in Methods, p \in Paths}

NoEventList(kind) == [events |-> [kind |-> kind, list |-> <<>>]]
EventList(list) == [events |-> [kind |-> "array", list |-> list]]

\* a state machine with k events (with none: no events key, an events value
\* that is no array, or an empty list)
MachinesWith(k) ==
    IF k = 0
    THEN {NoEventList(Undefined), NoEventList("notArray"), EventList(<<>>)}
    ELSE {EventList(l) : l \in SeqsOfLen(SomeEvents, k)}

\* n state machines holding at most budget events together
RECURSIVE ConfigsOf(_, _)
ConfigsOf(n, budget) ==
    IF n = 0 THEN {<<>>}
    ELSE UNION {{<<m>> \o rest : m \in MachinesWith(k),
                                 rest \in ConfigsOf(n - 1, budget - k)} :
                k \in 0..budget}

Configs ==
    UNION {ConfigsOf(n, MaxEvents) : n \in 0..MaxMachines}
    \cup {<<EventList(<<b>>)>> : b \in Bindings}

-----------------------------------------------------------------------------
(* Specifications *)

\* the state after the constructor: no hook has been called
Constructed(providerStages, givenOptions, styles, configs) ==
    /\ service = "svc"
    /\ region = "us-east-1"
    /\ \E ps \in providerStages : stage = ConstructorStage(ps)
    /\ \E o \in givenOptions : options = ConstructorOptions(o)
    /\ v3Api \in styles
    /\ stateMachines \in configs
    /\ endpointInfo = <<"undefined">>
    /\ validated = -1
    /\ exitCode = 0
    /\ calls = EmptyBag

\* packaging: package:initialize, package:compileFunctions,
\* package:compileEvents
Init == Constructed({"dev"}, {NoOptions}, {TRUE}, {<<>>})

Next ==
    \/ PackageInitialize
    \/ PackageCompileFunctions
    \/ PackageCompileEvents
    \/ PhaseStart
    \/ PhaseResolves
    \/ PhaseFails
    \/ HttpValidateReturns
    \/ HttpValidateThrows
    \/ HttpCallbackErrorRejectsHook

Spec == Init /\ [][Next]_vars

\* the invoke stepf command
InitInvoke == Constructed(ProviderStages, {NoOptions}, {TRUE}, {<<>>})

NextInvoke ==
    \/ InvokeStepfInvoke
    \/ PhaseStart
    \/ PhaseResolves
    \/ PhaseFails
    \/ DescribeExecutionResolves
    \/ GetExecutionHistoryResolves

SpecInvoke == InitInvoke /\ [][NextInvoke]_vars

\* after:deploy:deploy
InitDisplay == Constructed({"dev"}, {NoOptions}, BOOLEAN, Configs)

NextDisplay ==
    \/ AfterDeployDeploy
    \/ PhaseStart
    \/ PhaseFails
    \/ GetEndpointInfoResolves
    \/ Display

SpecDisplay == InitDisplay /\ [][NextDisplay]_vars

\* every hook of the class, for a few configurations
SmallConfigs ==
    {<<>>,
     <<NoEventList(Undefined),
       EventList(<<OtherEvent("schedule"), HttpString(Get \o <<" ", "/", "a">>)>>)>>}

InitAll ==
    Constructed({"dev"}, {[given |-> TRUE, stage |-> "prod", region |-> "eu-west-1"]},
                {TRUE}, SmallConfigs)

NextAll ==
    \/ InvokeStepfInvoke
    \/ PackageInitialize
    \/ PackageCompileFunctions
    \/ PackageCompileEvents
    \/ AfterDeployDeploy
    \/ PhaseStart
    \/ PhaseResolves
    \/ PhaseFails
    \/ HttpValidateReturns
    \/ HttpValidateThrows
    \/ HttpCallbackErrorRejectsHook
    \/ DescribeExecutionResolves
    \/ GetExecutionHistoryResolves
    \/ GetEndpointInfoResolves
    \/ Display

SpecAll == InitAll /\ [][NextAll]_vars

-----------------------------------------------------------------------------
(* Properties of the hooks.  A property of a hook run is stated of every    *)
(* chain that is followed.                                                  *)

Failed == {"rejected", "threw"}

InCompileEvents(r) == r.hook = "package:compileEvents"
InCompileFunctions(r) == r.hook = "package:compileFunctions"

Ran(r, p) == p \in Range(r.completed)
Began(r, p) == p \in Range(r.started)

\* the twelve HTTP phases, in the order the specification gives
TwelveHttpPhases ==
    <<"compileRestApi", "compileResources", "compileMethods",
      "compileRequestValidators", "compileAuthorizers",
      "compileHttpLambdaPermissions", "compileCors", "compileHttpIamRole",
      "compileDeployment", "compileApiKeys", "compileUsagePlan",
      "compileUsagePlanKeys">>

HttpPhaseNames == Range(TwelveHttpPhases)

IsPrefix(s, t) == Len(s) <= Len(t) /\ s = SubSeq(t, 1, Len(s))

\* the HTTP chain has finished, or it was decided that it is skipped
HttpChainSettled(r) ==
    /\ Ran(r, "httpValidate")
    /\ r.events = 0 \/ \A p \in HttpPhaseNames : Ran(r, p)

\* a phase starts only after settled has become true
StartsAfterHttp(r, p) == Began(r, p) => HttpChainSettled(r)

\* C1 as stated: in package:compileEvents neither compileScheduledEvents nor
\* compileCloudWatchEventEvents starts before the HTTP chain has finished or
\* has been skipped.
C1_ScheduleAndEventBusAfterHttp ==
    \A r \in Chains :
        InCompileEvents(r) =>
            /\ StartsAfterHttp(r, "compileScheduledEvents")
            /\ StartsAfterHttp(r, "compileCloudWatchEventEvents")

\* C1 amended: compileCloudWatchEventEvents starts only after the HTTP chain
\* has finished or has been skipped; compileScheduledEvents is the first
\* phase of the hook and has completed before httpValidate or any HTTP phase
\* starts.
C1_EventBusAfterHttp_ScheduleFirst ==
    \A r \in Chains :
        InCompileEvents(r) =>
            /\ StartsAfterHttp(r, "compileCloudWatchEventEvents")
            /\ r.started # <<>> => r.started[1] = "compileScheduledEvents"
            /\ \A p \in HttpPhaseNames \cup {"httpValidate"} :
                  Began(r, p) => Ran(r, "compileScheduledEvents")

C1_Witness ==
    \E r \in Chains :
        /\ InCompileEvents(r)
        /\ r.result = "resolved"
        /\ r.events > 0
        /\ Ran(r, "compileScheduledEvents")
        /\ Ran(r, "compileUsagePlanKeys")
        /\ Ran(r, "compileCloudWatchEventEvents")

FunctionPhases ==
    <<"compileIamRole", "compileStateMachines", "compileActivities",
      "compileAlarms", "compileNotifications">>

\* C2: package:compileFunctions starts its phases in the order
\* compileIamRole, compileStateMachines, compileActivities, compileAlarms,
\* compileNotifications, each after the one before it has completed, and a
\* run that does not fail has run each of them exactly once.
C2_CompileFunctionsOrder ==
    \A r \in Chains :
        InCompileFunctions(r) =>
            /\ IsPrefix(r.started, FunctionPhases)
            /\ IsPrefix(r.completed, FunctionPhases)
            /\ \A i \in 2..Len(r.started) : Ran(r, FunctionPhases[i - 1])
            /\ r.result = "resolved" =>
                  r.started = FunctionPhases /\ r.completed = FunctionPhases

C2_Witness ==
    \E r \in Chains :
        /\ InCompileFunctions(r)
        /\ r.result = "resolved"
        /\ Len(r.completed) = 5

\* C3: in package:compileEvents an HTTP phase is started only when
\* httpValidate returned at least one event, and then the chain is entered;
\* with zero events no HTTP phase is ever started, the next phase is the
\* event-bus compiler, and the hook resolves once that compiler has (it can
\* fail only with the event-bus compiler's own error).
C3_HttpChainIffEvents ==
    \A r \in Chains :
        InCompileEvents(r) =>
            /\ \A p \in HttpPhaseNames :
                  Began(r, p) => Ran(r, "httpValidate") /\ r.events >= 1
            /\ (Ran(r, "httpValidate") /\ r.events >= 1 /\ Len(r.started) >= 3) =>
                  r.started[3] = "compileRestApi"
            /\ (Ran(r, "httpValidate") /\ r.events = 0) =>
                  /\ \A p \in HttpPhaseNames : ~Began(r, p)
                  /\ Len(r.started) <= 3
                  /\ Len(r.started) = 3 =>
                        r.started[3] = "compileCloudWatchEventEvents"
                  /\ Ran(r, "compileCloudWatchEventEvents") =>
                        r.result = "resolved"
                  /\ r.result \in Failed =>
                        r.error = "compileCloudWatchEventEvents"

C3_Witness ==
    \E r \in Chains :
        /\ InCompileEvents(r)
        /\ Ran(r, "httpValidate")
        /\ r.events = 0
        /\ Ran(r, "compileCloudWatchEventEvents")
        /\ r.result = "resolved"

\* the HTTP phases among the phases started
HttpStarted(r) == SelectSeq(r.started, LAMBDA p : p \in HttpPhaseNames)
HttpCompleted(r) == SelectSeq(r.completed, LAMBDA p : p \in HttpPhaseNames)

\* C4: with at least one Http event the HTTP phases are started in the order
\* rest API, resources, methods, request validators, authorizers, Lambda
\* permissions, CORS, IAM role, deployment, API keys, usage plan, usage plan
\* keys, each after the one before it has completed; a run in which no phase
\* fails has run each exactly once; deployment does not start before methods
\* has completed, nor usage plan keys before API keys and usage plan.
C4_HttpChainOrder ==
    \A r \in Chains :
        (InCompileEvents(r) /\ Ran(r, "httpValidate") /\ r.events >= 1) =>
            /\ IsPrefix(HttpStarted(r), TwelveHttpPhases)
            /\ IsPrefix(HttpCompleted(r), TwelveHttpPhases)
            /\ \A i \in 2..Len(HttpStarted(r)) : Ran(r, TwelveHttpPhases[i - 1])
            /\ r.result = "resolved" =>
                  /\ HttpStarted(r) = TwelveHttpPhases
                  /\ HttpCompleted(r) = TwelveHttpPhases
            /\ Began(r, "compileDeployment") => Ran(r, "compileMethods")
            /\ Began(r, "compileUsagePlanKeys") =>
                  Ran(r, "compileApiKeys") /\ Ran(r, "compileUsagePlan")

C4_Witness ==
    \E r \in Chains :
        /\ InCompileEvents(r)
        /\ r.events >= 1
        /\ r.result = "resolved"
        /\ Len(HttpCompleted(r)) = 12

\* a phase that was started and has failed
HasFailed(r, p) == Began(r, p) /\ ~Ran(r, p) /\ p \notin r.running

\* a callback of the run has thrown and the rejection is on its way to the
\* promise the hook returned
Failing(r) == r.result = "pending" /\ r.thrown # "none"

\* the error the run fails with, delivered or on its way
ErrorOf(r) == IF Failing(r) THEN r.thrown ELSE r.error

\* a run ends at its first failure: every phase started before the last one
\* has completed; a failure leaves the hook failed, or the rejection on its
\* way to the hook's promise, with nothing running and the failed phase the
\* last one started; and a hook that resolved has completed every phase it
\* started
EndsAtFirstFailure(r) ==
    /\ \A i \in 1..(Len(r.started) - 1) : Ran(r, r.started[i])
    /\ \A p \in Range(r.started) :
          HasFailed(r, p) => r.result \in Failed \/ Failing(r)
    /\ (r.result \in Failed \/ Failing(r)) =>
          /\ r.running = {}
          /\ r.started # <<>>
          /\ HasFailed(r, r.started[Len(r.started)])
    /\ r.result = "resolved" =>
          /\ \A p \in Range(r.started) : Ran(r, p)
          /\ Ran(r, Chain(r.hook)[Len(Chain(r.hook))])

\* C5: in package:compileFunctions and package:compileEvents a phase that
\* throws or rejects (compileScheduledEvents and httpValidate included) ends
\* the run: no later phase is started and the hook's result is a failure
\* that carries the error of that phase; a run ends with all its phases
\* completed or failed, never with a phase run after a failed one.
C5_FailFast ==
    \A r \in Chains :
        (InCompileFunctions(r) \/ InCompileEvents(r)) =>
            /\ EndsAtFirstFailure(r)
            /\ \A p \in Range(r.started) : HasFailed(r, p) => ErrorOf(r) = p

\* a run that failed in an HTTP phase beside a run that failed when
\* httpValidate threw
C5_Witness ==
    \E r, q \in Chains :
        /\ InCompileEvents(r)
        /\ r.result = "rejected"
        /\ r.error = "compileMethods"
        /\ r.started = <<"compileScheduledEvents", "httpValidate",
                         "compileRestApi", "compileResources", "compileMethods">>
        /\ InCompileEvents(q)
        /\ q.result = "rejected"
        /\ q.error = "httpValidate"
        /\ q.started = <<"compileScheduledEvents", "httpValidate">>

\* the run goes on: it has not failed and no rejection is on its way
NotAborted(r) == r.result \notin Failed /\ ~Failing(r)

\* C6: an error raised for one Http binding during httpValidate, or during
\* an HTTP phase of a run with several Http bindings, does not abort the
\* package:compileEvents run: the run goes on to the remaining HTTP phases
\* and to the event-bus compiler.
C6_HttpErrorDoesNotAbort ==
    \A r \in Chains :
        InCompileEvents(r) =>
            /\ HasFailed(r, "httpValidate") => NotAborted(r)
            /\ \A p \in HttpPhaseNames :
                  (r.events >= 2 /\ HasFailed(r, p)) => NotAborted(r)


-----------------------------------------------------------------------------
(* Properties of invoke *)

InInvoke(r) == r.hook = "invoke:stepf:invoke"

Finished(r) == r.result # "pending"

\* getExecutionHistory was called and returned a history
HistoryReturned(r) ==
    /\ Began(r, "getExecutionHistory")
    /\ "getExecutionHistory" \notin r.running
    /\ r.error # "getExecutionHistory"

\* the run assigned to process.exitCode
SetExitCode(r) == \E i \in 1..Len(r.effects) : r.effects[i][1] = "exitCode"

\* C7: once the invoke workflow has finished, the exit code is 1 if
\* describeExecution reported FAILED, whatever history getExecutionHistory
\* returned, and the run leaves it untouched if it reported another status.
C7_ExitCodeOneIffFailed ==
    \A r \in Chains :
        (InInvoke(r) /\ Finished(r) /\ Ran(r, "describeExecution")) =>
            /\ (r.execution.status = "FAILED" /\ HistoryReturned(r)) =>
                  exitCode = 1
            /\ r.execution.status # "FAILED" => ~SetExitCode(r)

InvokeOrder ==
    <<"yamlParse", "getStateMachineArn", "startExecution", "describeExecution",
      "getExecutionHistory">>

\* the results logged by a run: the objects among the values logged
ResultsLogged(r) == SelectSeq(r.effects, LAMBDA e : e[1] = "object")

\* C8: invoke:stepf:invoke starts yamlParse, getStateMachineArn,
\* startExecution and describeExecution in this order, each after the one
\* before it has completed; getExecutionHistory is called exactly when
\* describeExecution reported FAILED, and after it; a run that succeeds
\* has logged the result exactly once.
C8_InvokeOrder ==
    \A r \in Chains :
        InInvoke(r) =>
            /\ IsPrefix(r.started, InvokeOrder)
            /\ IsPrefix(r.completed, InvokeOrder)
            /\ \A i \in 2..Len(r.started) : Ran(r, InvokeOrder[i - 1])
            /\ Ran(r, "describeExecution") =>
                  (Began(r, "getExecutionHistory")
                      <=> r.execution.status = "FAILED")
            /\ r.result = "resolved" =>
                  /\ Ran(r, "describeExecution")
                  /\ Len(ResultsLogged(r)) = 1
            /\ Len(ResultsLogged(r)) <= 1

C8_Witness ==
    \E r \in Chains :
        /\ InInvoke(r)
        /\ r.result = "resolved"
        /\ Ran(r, "getExecutionHistory")
        /\ Len(r.history) = 2
        /\ Len(ResultsLogged(r)) = 1

-----------------------------------------------------------------------------
(* Properties of display *)

\* an event that binds the state machine to an HTTP route
IsBinding(e) ==
    e.http.t = "object" \/ (e.http.t = "string" /\ e.http.str # <<>>)

\* the Http bindings of the configuration, by state machine and then by
\* event
RECURSIVE BindingsOf(_)
BindingsOf(machines) ==
    IF machines = <<>> THEN <<>>
    ELSE (IF Head(machines).events.kind = "array"
          THEN SelectSeq(Head(machines).events.list, IsBinding)
          ELSE <<>>)
         \o BindingsOf(Tail(machines))

\* the method of a binding as configured: of 'method path', what stands
\* before the space
MethodOf(e) ==
    IF e.http.t = "object" THEN e.http.method
    ELSE SubSeq(e.http.str, 1, Pos(e.http.str, " ") - 1)

\* the path of a binding as configured: of 'method path', what stands after
\* the space
PathOf(e) ==
    IF e.http.t = "object" THEN e.http.path
    ELSE SubSeq(e.http.str, Pos(e.http.str, " ") + 1, Len(e.http.str))

UpperCased(m) ==
    CASE m = <<"p", "o", "s", "t">> -> <<"P", "O", "S", "T">>
      [] m = <<"G", "e", "t">> -> <<"G", "E", "T">>

\* "/" and each non-empty segment of the path, one after the other
RECURSIVE SlashSegments(_)
SlashSegments(segs) ==
    IF segs = <<>> THEN <<>>
    ELSE <<"/">> \o Head(segs) \o SlashSegments(Tail(segs))

\* the lines of a message that are lines of bindings, without their indent
BindingLines(message) ==
    LET lines == SelectSeq(Split(message, "\n"),
                           LAMBDA l : Len(l) >= 2 /\ l[1] = " " /\ l[2] = " ")
    IN  [i \in 1..Len(lines) |-> SubSeq(lines[i], 3, Len(lines[i]))]

\* line is '<METHOD> - <endpointInfo><path>' for binding e
IsLineOf(line, e, info) ==
    LET prefix == UpperCased(MethodOf(e)) \o <<" ", "-", " ">> \o info
        segs == NonEmpty(Split(PathOf(e), "/"))
        rest == SubSeq(line, Len(prefix) + 1, Len(line))
    IN  /\ IsPrefix(prefix, line)
        /\ IF segs # <<>> THEN rest = SlashSegments(segs)
           ELSE rest \in {<<>>, <<"/">>}

\* chain r takes a step, after which it is r2
Stepped(r, r2) ==
    /\ r \in Chains
    /\ r.result = "pending"
    /\ r2 \in BagToSet(calls')
    /\ r2 # r
    /\ calls' = (calls (-) SetToBag({r})) (+) SetToBag({r2})

\* the step of chain r in which display is called, and returns or throws
DisplayStep(r, r2) ==
    Stepped(r, r2) /\ ~Began(r, "display") /\ Began(r2, "display")

\* C9: for a configuration with Http bindings, display returns the message
\* it logs, once, and the message holds one line '<METHOD> - <endpointInfo>
\* <path>' per binding, by state machine and then by event, the method in
\* upper case, for bindings written as objects and as 'method path'; other
\* events have no line; for path 'orders' and method 'post' the line is
\* 'POST - <host>/orders'.
C9_DisplayLines ==
    [][\A r \in Chains, r2 \in BagToSet(calls') :
          (/\ DisplayStep(r, r2)
           /\ r2.displayRet.kind = "returned"
           /\ BindingsOf(stateMachines) # <<>>) =>
              LET lines == BindingLines(r2.displayRet.value)
                  bindings == BindingsOf(stateMachines)
              IN  /\ r2.effects = <<LogString(r2.displayRet.value)>>
                  /\ Len(lines) = Len(bindings)
                  /\ \A i \in 1..Len(bindings) :
                        IsLineOf(lines[i], bindings[i], endpointInfo)
                  /\ (/\ bindings = <<HttpObject(Post, Orders)>>
                      /\ endpointInfo = <<"h">>) =>
                        lines = <<(<<"P", "O", "S", "T", " ", "-", " ", "h", "/">>
                                    \o Orders)>>
      ]_vars

C9_Witness ==
    \E r \in Chains :
        /\ r.displayRet.kind = "returned"
        /\ stateMachines =
              <<EventList(<<HttpObject(Post, Orders)>>),
                EventList(<<HttpString(Get \o <<" ", "/", "a">>)>>)>>
        /\ BindingLines(r.displayRet.value) =
              <<(<<"P", "O", "S", "T", " ", "-", " ", "h", "/">> \o Orders),
                <<"G", "E", "T", " ", "-", " ", "h", "/", "a">>>>

\* C10: when the configuration has no Http binding (no state machine, no
\* events list, an events value that is no array, only other events),
\* display returns the empty string and logs nothing, in the v3 and in the
\* legacy style.
C10_EmptyDisplay ==
    \A r \in Chains :
        (r.displayRet.kind # "none" /\ BindingsOf(stateMachines) = <<>>) =>
            /\ r.displayRet = [kind |-> "returned", value |-> <<>>]
            /\ r.effects = <<>>
            /\ r.result = "resolved"

C10_Witness ==
    \E r \in Chains :
        /\ r.displayRet.kind = "returned"
        /\ ~v3Api
        /\ stateMachines =
              <<NoEventList("notArray"), EventList(<<OtherEvent("schedule")>>)>>
        /\ r.effects = <<>>

-----------------------------------------------------------------------------
(* Further properties of invoke *)

\* the operations of the Execution Client
ClientCalls ==
    {"getStateMachineArn", "startExecution", "describeExecution",
     "getExecutionHistory"}

\* how many times phase p was started in the run
TimesStarted(r, p) ==
    Cardinality({i \in 1..Len(r.started) : r.started[i] = p})

\* C11: in one run of invoke each Execution Client call is issued at most
\* once; a call that fails leaves the workflow failed with that call's
\* error, is not issued again and is the last phase started.
C11_NoRetry ==
    \A r \in Chains :
        InInvoke(r) =>
            \A p \in ClientCalls :
                /\ TimesStarted(r, p) <= 1
                /\ HasFailed(r, p) =>
                      /\ r.result = "rejected"
                      /\ r.error = p
                      /\ r.started[Len(r.started)] = p
                      /\ r.running = {}

C11_Witness ==
    \E r \in Chains :
        /\ InInvoke(r)
        /\ HasFailed(r, "startExecution")
        /\ r.result = "rejected"
        /\ r.started = <<"yamlParse", "getStateMachineArn", "startExecution">>

-----------------------------------------------------------------------------
(* One phase at a time *)

\* C12: during a package:compileFunctions or package:compileEvents run at
\* most one phase of the run is executing (started and not yet settled): the
\* phase started last, and every phase started before it has settled.
C12_OnePhaseAtATime ==
    \A r \in Chains :
        (InCompileFunctions(r) \/ InCompileEvents(r)) =>
            /\ Cardinality(r.running) <= 1
            /\ r.running # {} => r.running = {r.started[Len(r.started)]}
            /\ Len(r.started) - Len(r.completed) <= 1
            /\ \A i \in 1..(Len(r.started) - 1) : r.started[i] \notin r.running

\* a phase of a run executes while a phase of another run does
C12_Witness ==
    \E r, q \in Chains :
        /\ InCompileEvents(r)
        /\ r.running = {"compileMethods"}
        /\ r.completed = <<"compileScheduledEvents", "httpValidate",
                           "compileRestApi", "compileResources">>
        /\ InCompileFunctions(q)
        /\ q.running = {"compileIamRole"}

-----------------------------------------------------------------------------
(* What invoke logs *)

\* result res with the properties that the failure details of event ev
\* define put over its own
WithDetailsOf(res, ev) ==
    [k \in DOMAIN res |->
        IF /\ ev.executionFailedEventDetails # Undefined
           /\ k \in {"error", "cause"}
           /\ ev.details[k] # Undefined
        THEN ev.details[k] ELSE res[k]]

\* describeExecution resolves in this step of chain r
DescribeStep(r, r2) ==
    /\ Stepped(r, r2)
    /\ InInvoke(r)
    /\ ~Ran(r, "describeExecution")
    /\ Ran(r2, "describeExecution")

\* getExecutionHistory resolves with at least one event in this step
HistoryStep(r, r2) ==
    /\ Stepped(r, r2)
    /\ InInvoke(r)
    /\ ~Ran(r, "getExecutionHistory")
    /\ Ran(r2, "getExecutionHistory")
    /\ r2.history # <<>>

\* C13: with status FAILED the value logged is the describeExecution result
\* merged with the executionFailedEventDetails of the last event of the
\* history, and the exit code is set to 1 after it has been logged, by no
\* other step; with another status the value logged is the
\* describeExecution result as it was resolved.
C13_FailureDetail ==
    [][/\ \A r \in Chains, r2 \in BagToSet(calls') :
            /\ DescribeStep(r, r2) =>
                  /\ exitCode' = exitCode
                  /\ IF r2.execution.status = "FAILED"
                     THEN r2.effects = Append(r.effects, LogString(<<>>))
                     ELSE /\ r2.effects = r.effects \o <<LogString(<<>>),
                                                         LogObject(r2.execution)>>
                          /\ r2.result = "resolved"
            /\ HistoryStep(r, r2) =>
                  /\ r.execution.status = "FAILED"
                  /\ r2.effects = r.effects \o
                        <<LogObject(WithDetailsOf(r.execution,
                                                  r2.history[Len(r2.history)])),
                          ExitCodeSet(1)>>
                  /\ exitCode' = 1
       /\ exitCode' # exitCode =>
            \E r \in Chains, r2 \in BagToSet(calls') : HistoryStep(r, r2)
      ]_vars

C13_Witness ==
    \E r \in Chains :
        /\ InInvoke(r)
        /\ exitCode = 1
        /\ Len(r.history) = 2
        /\ r.history[1].details.error = "E1"
        /\ r.history[2].details.error = "E2"
        /\ Len(ResultsLogged(r)) = 1
        /\ ResultsLogged(r)[1][2].status = "FAILED"
        /\ ResultsLogged(r)[1][2].error = "E2"
        /\ r.effects[Len(r.effects)] = ExitCodeSet(1)

-----------------------------------------------------------------------------
(* The path that display prints *)

\* the non-empty '/'-separated segments of a path
Segments(path) == NonEmpty(Split(path, "/"))

\* the binding of a configuration that holds one state machine with one
\* Http binding
OneBinding == stateMachines[1].events.list[1]

HasOneBinding ==
    /\ Len(stateMachines) = 1
    /\ stateMachines[1].events.kind = "array"
    /\ Len(stateMachines[1].events.list) = 1
    /\ IsBinding(OneBinding)

\* what the line of the one binding holds after '<METHOD> - <endpointInfo>'
\* (the endpoint info is one element long)
PrintedPath(r) ==
    LET line == BindingLines(r.displayRet.value)[1]
        prefix == UpperCased(MethodOf(OneBinding)) \o <<" ", "-", " ">>
    IN  SubSeq(line, Len(prefix) + 2, Len(line))

\* C14: the path display prints depends only on the non-empty segments of
\* the configured path: every path with the same segments prints the same,
\* and what is printed neither ends with '/' nor holds an empty segment.
C14_PathBySegments ==
    \A r \in Chains :
        (r.displayRet.kind = "returned" /\ HasOneBinding) =>
            /\ \A q \in Paths :
                  Segments(q) = Segments(PathOf(OneBinding)) =>
                      NormalizePath(q) = PrintedPath(r)
            /\ PrintedPath(r) # <<>> =>
                  PrintedPath(r)[Len(PrintedPath(r))] # "/"
            /\ \A i \in 1..(Len(PrintedPath(r)) - 1) :
                  ~(PrintedPath(r)[i] = "/" /\ PrintedPath(r)[i + 1] = "/")

-----------------------------------------------------------------------------
(* What the hooks leave alone *)

\* C15: service, region and stage keep the values the constructor gave them
\* through every step of every hook (package:*, invoke with or without
\* --stage and --region, display); a step of display changes neither the
\* endpoint info nor the configuration of the state machines.
C15_NamingFixed ==
    [][/\ service' = service
       /\ region' = region
       /\ stage' = stage
       /\ (\E r \in Chains, r2 \in BagToSet(calls') : DisplayStep(r, r2)) =>
            endpointInfo' = endpointInfo /\ stateMachines' = stateMachines
      ]_vars

C15_Witness ==
    \E r, q \in Chains :
        /\ InInvoke(r)
        /\ r.result = "resolved"
        /\ q.displayRet.kind = "returned"
        /\ options = [stage |-> "prod", region |-> "eu-west-1"]
        /\ service = "svc"
        /\ region = "us-east-1"
        /\ stage = "dev"

-----------------------------------------------------------------------------
(* after:deploy:deploy *)

InAfterDeploy(r) == r.hook = "after:deploy:deploy"

\* C16: in after:deploy:deploy display begins only once getEndpointInfo has
\* resolved, so it never reads the endpoint info while getEndpointInfo is
\* pending; when getEndpointInfo fails the hook is rejected, display never
\* begins and nothing is printed.
C16_DisplayAfterEndpointInfo ==
    \A r \in Chains :
        InAfterDeploy(r) =>
            /\ Began(r, "display") =>
                  Ran(r, "getEndpointInfo") /\ "getEndpointInfo" \notin r.running
            /\ HasFailed(r, "getEndpointInfo") =>
                  /\ r.result = "rejected"
                  /\ ~Began(r, "display")
                  /\ r.displayRet.kind = "none"
                  /\ r.effects = <<>>

C16_Witness ==
    \E r \in Chains :
        /\ InAfterDeploy(r)
        /\ r.completed = <<"getEndpointInfo", "display">>
        /\ r.result = "resolved"
        /\ r.displayRet.kind = "returned"
        /\ Len(r.effects) = 1

====
